---- MODULE Spec2Model ----
(***************************************************************************)
(* A model of scenetree's Workspace, Scene and Configuration               *)
(* (src/src/scenetree/workspace.py).  A Workspace owns two dictionaries,   *)
(* _scenes (scene name -> dict of objects) and _configurations             *)
(* (configuration name -> TransformManager).  Python dictionaries and      *)
(* TransformManagers are mutable objects reached through references, so    *)
(* the model keeps two heaps, dicts and tms, and every holder (the         *)
(* Workspace, the caller) holds a reference into a heap.  Which address a  *)
(* new object gets is immaterial: the dict made by create_scene(name) is   *)
(* at reference name, the TransformManager made by                         *)
(* create_configuration(name) at reference name, and an object that no     *)
(* holder refers to any more is dropped from its heap.                     *)
(*                                                                         *)
(* Transforms are 4x4 homogeneous matrices with integer entries (on which  *)
(* the double-precision arithmetic of the program is exact).               *)
(*                                                                         *)
(* frameforest's Workspace (src/src/frameforest/workspace.py) is a         *)
(* container of its own, with the variable frames.  The View of a          *)
(* Configuration, which src/ does not hold, is modelled from section 4.4   *)
(* of the specification.                                                   *)
(***************************************************************************)
EXTENDS Integers, Sequences, FiniteSets, TLC

VARIABLES
    dicts,           \* heap of Python dicts: ref -> (object id -> object)
    tms,             \* heap of TransformManagers: ref -> [nodes, transforms]
    scenes,          \* Workspace._scenes: scene name -> ref into dicts
    configurations,  \* Workspace._configurations: name -> ref into tms
    objects,         \* the caller's own mapping (ref into dicts, "" = the caller has none)
    created,         \* the scenes that were created from that mapping
    snap,            \* the caller's TransformManager from as_transform_manager (ref, "" = none)
    snapOf,          \* the configuration the snapshot was taken of
    frames,          \* frameforest's Workspace._scenes: frame name -> (object id -> object)
    ret              \* the last call: operation, arguments, outcome

vars == <<dicts, tms, scenes, configurations, objects, created, snap, snapOf, frames, ret>>

----------------------------------------------------------------------------
(* Names the calls are made with.                                          *)

SceneNames == {"a", "b", "c", "d"}
ObjectIds == {"p1", "p2", "p3", "p4"}

----------------------------------------------------------------------------
(* 4x4 homogeneous transforms (numpy arrays of shape (4, 4)).              *)

Eye4 == <<
    <<1, 0, 0, 0>>,
    <<0, 1, 0, 0>>,
    <<0, 0, 1, 0>>,
    <<0, 0, 0, 1>> >>

\* numpy's A.dot(B) on two 4x4 arrays
DotAt(A, B, i, j) ==
    A[i][1] * B[1][j] + A[i][2] * B[2][j] + A[i][3] * B[3][j] + A[i][4] * B[4][j]

DotRow(A, B, i) == <<DotAt(A, B, i, 1), DotAt(A, B, i, 2), DotAt(A, B, i, 3), DotAt(A, B, i, 4)>>

Dot(A, B) == <<DotRow(A, B, 1), DotRow(A, B, 2), DotRow(A, B, 3), DotRow(A, B, 4)>>

\* the mutant of concat: the product taken in the other order
concat_swapped(A2B, B2C) == Dot(A2B, B2C)

\* pytransform3d.transformations.concat: first A2B, then B2C
concat(A2B, B2C) == Dot(B2C, A2B)

\* the mutant of invert_transform: the matrix is returned as it is stored
invert_transform_noop(A2B) == A2B

\* pytransform3d.transformations.invert_transform on a rigid transform
\* [R p; 0 1]: the inverse is [R^T  -R^T p; 0 1]
InvertRow(A2B, i) ==
    <<A2B[1][i], A2B[2][i], A2B[3][i],
      0 - (A2B[1][i] * A2B[1][4] + A2B[2][i] * A2B[2][4] + A2B[3][i] * A2B[3][4])>>

invert_transform(A2B) ==
    <<InvertRow(A2B, 1), InvertRow(A2B, 2), InvertRow(A2B, 3), <<0, 0, 0, 1>> >>

\* a pure translation
Translate(x, y, z) == <<
    <<1, 0, 0, x>>,
    <<0, 1, 0, y>>,
    <<0, 0, 1, z>>,
    <<0, 0, 0, 1>> >>

\* a quarter turn about z followed by a translation
QuarterTurnZ(x, y, z) == <<
    <<0, -1, 0, x>>,
    <<1,  0, 0, y>>,
    <<0,  0, 1, z>>,
    <<0,  0, 0, 1>> >>

\* the transforms connect is called with
Transforms == {Translate(10, 0, 0), QuarterTurnZ(1, 2, 3)}

----------------------------------------------------------------------------
(* pytransform3d's TransformManager, as Configuration uses it: the frames   *)
(* seen so far (nodes) and one matrix per directed pair of frames           *)
(* (transforms).  Its shortest-path tables are recomputed from these two    *)
(* whenever a new pair is added, so they are functions of nodes and         *)
(* transforms.                                                              *)

NoTransform == <<>>

\* TransformManager()
NewTransformManager == [nodes |-> {}, transforms |-> [p \in {} |-> Eye4]]

\* the mutant of add_transform: a pair that has a matrix keeps it
add_transform_once(tm, from_frame, to_frame, A2B) ==
    [nodes |-> tm.nodes \cup {from_frame, to_frame},
     transforms |->
        [p \in (DOMAIN tm.transforms) \cup {<<from_frame, to_frame>>} |->
            IF p \in DOMAIN tm.transforms THEN tm.transforms[p] ELSE A2B]]

\* TransformManager.add_transform: registers both frames, inserts or
\* overwrites the matrix of the directed pair
add_transform(tm, from_frame, to_frame, A2B) ==
    [nodes |-> tm.nodes \cup {from_frame, to_frame},
     transforms |->
        [p \in (DOMAIN tm.transforms) \cup {<<from_frame, to_frame>>} |->
            IF p = <<from_frame, to_frame>> THEN A2B ELSE tm.transforms[p]]]

\* the mutant of Adjacent: the graph searched as a directed one
AdjacentDirected(tm, u, v) == <<u, v>> \in DOMAIN tm.transforms

\* the connection matrix is searched with directed=False
Adjacent(tm, u, v) ==
    <<u, v>> \in DOMAIN tm.transforms \/ <<v, u>> \in DOMAIN tm.transforms

Neighbours(tm, S) == {v \in tm.nodes : \E u \in S : Adjacent(tm, u, v)}

\* self.dist[i, j], found breadth first: the number of hops of a shortest
\* path from i to j, or -1 where the table holds infinity
RECURSIVE Dist(_, _, _, _, _)
Dist(tm, frontier, seen, j, n) ==
    IF j \in frontier THEN n
    ELSE LET next == Neighbours(tm, frontier) \ seen
         IN IF next = {} THEN -1
            ELSE Dist(tm, next, seen \cup next, j, n + 1)

dist(tm, i, j) == Dist(tm, {i}, {i}, j, 0)

\* the walks of n hops that start at frame i
RECURSIVE Walks(_, _, _)
Walks(tm, i, n) ==
    IF n = 0 THEN {<<i>>}
    ELSE UNION {{Append(w, v) : v \in Neighbours(tm, {w[Len(w)]})}
                    : w \in Walks(tm, i, n - 1)}

\* the paths _shortest_path may return: which of several paths of the
\* least length the predecessor table holds is not determined by the
\* program, so all of them are outcomes
ShortestPaths(tm, i, j) ==
    {w \in Walks(tm, i, dist(tm, i, j)) : w[Len(w)] = j}

\* get_transform between two adjacent frames: the stored matrix, or the
\* inverse of the matrix stored for the reverse pair
DirectTransform(tm, from_frame, to_frame) ==
    IF <<from_frame, to_frame>> \in DOMAIN tm.transforms
    THEN tm.transforms[<<from_frame, to_frame>>]
    ELSE invert_transform(tm.transforms[<<to_frame, from_frame>>])

\* TransformManager._path_transform: concatenates the hops in path order
RECURSIVE path_transform(_, _, _)
path_transform(tm, path, k) ==
    IF k = 1 THEN Eye4
    ELSE concat(path_transform(tm, path, k - 1),
                DirectTransform(tm, path[k - 1], path[k]))

Ok(T) == [err |-> "none", T |-> T]
Raise(e) == [err |-> e, T |-> NoTransform]

\* TransformManager.get_transform: the set of its possible outcomes
tm_get_transform(tm, from_frame, to_frame) ==
    IF from_frame \notin tm.nodes \/ to_frame \notin tm.nodes
    THEN {Raise("KeyError")}
    ELSE IF Adjacent(tm, from_frame, to_frame)
    THEN {Ok(DirectTransform(tm, from_frame, to_frame))}
    ELSE IF dist(tm, from_frame, to_frame) < 0
    THEN {Raise("KeyError")}
    ELSE {Ok(path_transform(tm, p, Len(p))) : p \in ShortestPaths(tm, from_frame, to_frame)}

----------------------------------------------------------------------------
(* The state after Workspace().                                            *)

\* ret also notes, for a call that stores a transform, whether the directed
\* pair already had one (over), the observations a scene was given (obs),
\* a result that is no transform (val), the identity or pattern a View was
\* asked for (key) and the shared_ids of a best fit (used)
NoRet == [op |-> "none", cfg |-> "", from |-> "", to |-> "", ids |-> {},
          all |-> TRUE, over |-> FALSE, err |-> "none", T |-> NoTransform,
          obs |-> <<>>, val |-> <<>>, key |-> "", used |-> {}]

Called(op, cfg, from, to, out) ==
    [op |-> op, cfg |-> cfg, from |-> from, to |-> to, ids |-> {},
     all |-> TRUE, over |-> FALSE, err |-> out.err, T |-> out.T,
     obs |-> <<>>, val |-> <<>>, key |-> "", used |-> {}]

Init ==
    /\ dicts = [r \in {} |-> [k \in {} |-> 0]]
    /\ tms = [r \in {} |-> 0]
    /\ scenes = [n \in {} |-> ""]
    /\ configurations = [n \in {} |-> ""]
    /\ objects = ""
    /\ created = {}
    /\ snap = ""
    /\ snapOf = ""
    /\ frames = [n \in {} |-> [k \in {} |-> 0]]
    /\ ret = NoRet

\* d[k] = v on a TLA+ function standing for a Python dict
Put(d, k, v) == [x \in (DOMAIN d) \cup {k} |-> IF x = k THEN v ELSE d[x]]

\* the heap h without the objects that none of refs refers to
Collect(h, refs) == [r \in (DOMAIN h) \cap refs |-> h[r]]

Range(f) == {f[x] : x \in DOMAIN f}

\* Configuration._get_tm
get_tm(c) == tms[configurations[c]]

----------------------------------------------------------------------------
(* Objects of a scene: skspatial Point and Points, and any other kind.     *)

Point(c) == [kind |-> "Point", pts |-> <<c>>]
Points(cs) == [kind |-> "Points", pts |-> cs]
Line == [kind |-> "Line", pts |-> <<>>]

\* T applied to the 3D point c
ApplyAt(T, c, i) == T[i][1] * c[1] + T[i][2] * c[2] + T[i][3] * c[3] + T[i][4]

Apply(T, c) == <<ApplyAt(T, c, 1), ApplyAt(T, c, 2), ApplyAt(T, c, 3)>>

\* four markers, no three of them on a line
Base ==
    ("p1" :> <<0, 0, 0>>) @@ ("p2" :> <<24, 0, 0>>) @@
    ("p3" :> <<0, 24, 0>>) @@ ("p4" :> <<0, 0, 24>>)

\* the markers ids as single Points, seen from a frame displaced by T
Cloud(ids, T) == [k \in ids |-> Point(Apply(T, Base[k]))]

\* two of the markers observed twice or as another kind of object
Mixed ==
    ("p1" :> Points(<< <<0, 0, -24>>, <<0, 0, 24>> >>)) @@ ("p2" :> Point(Base["p2"])) @@
    ("p3" :> Line) @@ ("p4" :> Point(Base["p4"]))

EmptyDict == [k \in {} |-> Line]

\* the mappings a caller builds to populate a scene
SceneInputs ==
    {Cloud(ObjectIds, Eye4), Cloud(ObjectIds, Translate(24, 48, 72)),
     Cloud({"p1", "p2", "p3"}, QuarterTurnZ(24, 0, 0)), Cloud({"p1", "p2"}, Eye4),
     Mixed, EmptyDict}

\* the objects a caller puts into its mapping afterwards
ObjectInputs == {Point(<<24, 24, 24>>), Line}

\* the object_ids best_fit_points is called with, besides None
IdSubsets == {{}, {"p1", "p2"}, {"p1", "p2", "p3"}}

----------------------------------------------------------------------------
(* The caller's own mapping.                                               *)

MappingRefs == {"m1", "m2"}

\* objects = {...}: the caller builds a mapping and drops the one it had
NewMapping(d) ==
    LET free == MappingRefs \ Range(scenes)
        r == CHOOSE x \in free : TRUE
    IN /\ free # {}
       /\ dicts' = Collect(Put(dicts, r, d), Range(scenes) \cup {r})
       /\ objects' = r
       /\ created' = {}
       /\ ret' = [NoRet EXCEPT !.op = "new_mapping"]
       /\ UNCHANGED <<tms, scenes, configurations, snap, snapOf, frames>>

\* objects[k] = v: the caller inserts or replaces an entry of its mapping
CallerSet(k, v) ==
    /\ objects # ""
    /\ dicts' = [dicts EXCEPT ![objects] = Put(@, k, v)]
    /\ ret' = [NoRet EXCEPT !.op = "caller_set"]
    /\ UNCHANGED <<tms, scenes, configurations, objects, created, snap, snapOf, frames>>

\* del objects[k]: the caller deletes an entry of its mapping
CallerDel(k) ==
    /\ objects # ""
    /\ k \in DOMAIN dicts[objects]
    /\ dicts' = [dicts EXCEPT ![objects] = [x \in (DOMAIN @) \ {k} |-> @[x]]]
    /\ ret' = [NoRet EXCEPT !.op = "caller_del"]
    /\ UNCHANGED <<tms, scenes, configurations, objects, created, snap, snapOf, frames>>

----------------------------------------------------------------------------
(* Workspace.                                                              *)

\* the mutant of StoreScene: the caller's dict itself becomes the scene
StoreSceneAliased(h, name, ref) ==
    [dicts |-> h, scenes |-> Put(scenes, name, ref)]

\* self._scenes[name] = objects.copy(), on the heap h, with objects the
\* non-empty mapping at ref
StoreScene(h, name, ref) ==
    [dicts |-> Put(h, name, h[ref]), scenes |-> Put(scenes, name, name)]

\* the mutant of CreateScene: a name that exists is not refused, the scene
\* is made anew
CreateSceneOverwrite(name, given, d) ==
    /\ given = "objects" => objects # ""
    /\ LET ref == IF given = "objects" THEN objects ELSE "literal"
           h == IF given = "literal" THEN Put(dicts, ref, d) ELSE dicts
           st == IF given # "None" /\ DOMAIN h[ref] # {}
                 THEN StoreScene(h, name, ref)
                 ELSE [dicts |-> Put(h, name, EmptyDict),
                       scenes |-> Put(scenes, name, name)]
       IN /\ dicts' = Collect(st.dicts, Range(st.scenes) \cup {objects})
          /\ scenes' = st.scenes
          /\ created' = IF given = "objects" THEN created \cup {name} ELSE created
          /\ ret' = Called("create_scene", "", name, "", Ok(NoTransform))
    /\ UNCHANGED <<tms, configurations, objects, snap, snapOf, frames>>

\* Workspace.create_scene(name, objects).  given tells what the caller
\* passes: "None", a mapping d it builds for the call ("literal"), or the
\* mapping it holds ("objects")
CreateScene(name, given, d) ==
    /\ given = "objects" => objects # ""
    /\ IF name \in DOMAIN scenes
       THEN /\ ret' = Called("create_scene", "", name, "", Raise("ValueError"))
            /\ UNCHANGED <<dicts, scenes, created>>
       ELSE LET ref == IF given = "objects" THEN objects ELSE "literal"
                h == IF given = "literal" THEN Put(dicts, ref, d) ELSE dicts
                st == IF given # "None" /\ DOMAIN h[ref] # {}
                      THEN StoreScene(h, name, ref)
                      ELSE [dicts |-> Put(h, name, EmptyDict),
                            scenes |-> Put(scenes, name, name)]
            IN /\ dicts' = Collect(st.dicts, Range(st.scenes) \cup {objects})
               /\ scenes' = st.scenes
               /\ created' = IF given = "objects" THEN created \cup {name} ELSE created
               /\ ret' = Called("create_scene", "", name, "", Ok(NoTransform))
    /\ UNCHANGED <<tms, configurations, objects, snap, snapOf, frames>>

\* the mutant of CreateConfiguration: a new configuration gets the
\* TransformManager of a configuration that exists, when there is one
CreateConfigurationShared(name) ==
    /\ IF name \in DOMAIN configurations
       THEN /\ ret' = Called("create_configuration", name, "", "", Raise("ValueError"))
            /\ UNCHANGED <<tms, configurations>>
       ELSE IF DOMAIN configurations # {}
       THEN /\ configurations' =
                  Put(configurations, name,
                      configurations[CHOOSE c \in DOMAIN configurations : TRUE])
            /\ ret' = Called("create_configuration", name, "", "", Ok(NoTransform))
            /\ UNCHANGED tms
       ELSE /\ tms' = Put(tms, name, NewTransformManager)
            /\ configurations' = Put(configurations, name, name)
            /\ ret' = Called("create_configuration", name, "", "", Ok(NoTransform))
    /\ UNCHANGED <<dicts, scenes, objects, created, snap, snapOf, frames>>

\* the mutant of CreateConfiguration: a name that exists is not refused, the
\* configuration gets a new TransformManager
CreateConfigurationAnew(name) ==
    /\ tms' = Put(tms, name, NewTransformManager)
    /\ configurations' = Put(configurations, name, name)
    /\ ret' = Called("create_configuration", name, "", "", Ok(NoTransform))
    /\ UNCHANGED <<dicts, scenes, objects, created, snap, snapOf, frames>>

\* Workspace.create_configuration(name)
CreateConfiguration(name) ==
    /\ IF name \in DOMAIN configurations
       THEN /\ ret' = Called("create_configuration", name, "", "", Raise("ValueError"))
            /\ UNCHANGED <<tms, configurations>>
       ELSE /\ tms' = Put(tms, name, NewTransformManager)
            /\ configurations' = Put(configurations, name, name)
            /\ ret' = Called("create_configuration", name, "", "", Ok(NoTransform))
    /\ UNCHANGED <<dicts, scenes, objects, created, snap, snapOf, frames>>

----------------------------------------------------------------------------
(* Configuration.  A proxy exists only for a configuration that was        *)
(* created, so every call has c \in DOMAIN configurations.                 *)

\* the mutant of Connect: the existence of from_scene is not checked
ConnectFromUnchecked(c, from_scene, to_scene, transform) ==
    /\ c \in DOMAIN configurations
    /\ IF to_scene \notin DOMAIN scenes
       THEN /\ ret' = [Called("connect", c, from_scene, to_scene, Raise("KeyError"))
                          EXCEPT !.T = transform]
            /\ UNCHANGED tms
       ELSE /\ tms' = [tms EXCEPT ![configurations[c]] =
                          add_transform(@, from_scene, to_scene, transform)]
            /\ ret' = [Called("connect", c, from_scene, to_scene, Ok(transform))
                          EXCEPT !.over = <<from_scene, to_scene>> \in DOMAIN get_tm(c).transforms]
    /\ UNCHANGED <<dicts, scenes, configurations, objects, created, snap, snapOf, frames>>

\* the mutant of Connect: the existence of to_scene is not checked
ConnectUnchecked(c, from_scene, to_scene, transform) ==
    /\ c \in DOMAIN configurations
    /\ IF from_scene \notin DOMAIN scenes
       THEN /\ ret' = [Called("connect", c, from_scene, to_scene, Raise("KeyError"))
                          EXCEPT !.T = transform]
            /\ UNCHANGED tms
       ELSE /\ tms' = [tms EXCEPT ![configurations[c]] =
                          add_transform(@, from_scene, to_scene, transform)]
            /\ ret' = [Called("connect", c, from_scene, to_scene, Ok(transform))
                          EXCEPT !.over = <<from_scene, to_scene>> \in DOMAIN get_tm(c).transforms]
    /\ UNCHANGED <<dicts, scenes, configurations, objects, created, snap, snapOf, frames>>

\* Configuration.connect(from_scene, to_scene, transform)
Connect(c, from_scene, to_scene, transform) ==
    /\ c \in DOMAIN configurations
    /\ IF from_scene \notin DOMAIN scenes \/ to_scene \notin DOMAIN scenes
       THEN /\ ret' = [Called("connect", c, from_scene, to_scene, Raise("KeyError"))
                          EXCEPT !.T = transform]
            /\ UNCHANGED tms
       ELSE /\ tms' = [tms EXCEPT ![configurations[c]] =
                          add_transform(@, from_scene, to_scene, transform)]
            /\ ret' = [Called("connect", c, from_scene, to_scene, Ok(transform))
                          EXCEPT !.over = <<from_scene, to_scene>> \in DOMAIN get_tm(c).transforms]
    /\ UNCHANGED <<dicts, scenes, configurations, objects, created, snap, snapOf, frames>>

\* Configuration.get_transform(from_scene, to_scene)
GetTransform(c, from_scene, to_scene) ==
    /\ c \in DOMAIN configurations
    /\ \E out \in tm_get_transform(get_tm(c), from_scene, to_scene) :
          ret' = Called("get_transform", c, from_scene, to_scene, out)
    /\ UNCHANGED <<dicts, tms, scenes, configurations, objects, created, snap, snapOf, frames>>

\* the mutant of CopyTransformManager: the TransformManager itself is returned
ShareTransformManager(c) ==
    [tms |-> Collect(tms, Range(configurations)), snap |-> configurations[c]]

\* deepcopy(self._get_tm()): a new TransformManager, at reference "copy"; the
\* one the caller held before is dropped
CopyTransformManager(c) ==
    [tms |-> Put(tms, "copy", get_tm(c)), snap |-> "copy"]

\* Configuration.as_transform_manager()
AsTransformManager(c) ==
    /\ c \in DOMAIN configurations
    /\ tms' = CopyTransformManager(c).tms
    /\ snap' = CopyTransformManager(c).snap
    /\ snapOf' = c
    /\ ret' = Called("as_transform_manager", c, "", "", Ok(NoTransform))
    /\ UNCHANGED <<dicts, scenes, configurations, objects, created, frames>>

\* tm.add_transform(...) by the caller on the TransformManager it was given
SnapAddTransform(from_frame, to_frame, A2B) ==
    /\ snap # ""
    /\ tms' = [tms EXCEPT ![snap] = add_transform(@, from_frame, to_frame, A2B)]
    /\ ret' = [Called("snap_add_transform", snapOf, from_frame, to_frame, Ok(A2B))
                  EXCEPT !.over = <<from_frame, to_frame>> \in DOMAIN tms[snap].transforms]
    /\ UNCHANGED <<dicts, scenes, configurations, objects, created, snap, snapOf, frames>>

----------------------------------------------------------------------------
(* Scene.get_mean_points and Configuration.best_fit_points.                *)

MinSharedPoints == 3

\* the mutant of Supported: a Points has no mean position
SupportedPointOnly == {"Point"}

\* isinstance(obj, Point), isinstance(obj, Points)
Supported == {"Point", "Points"}

RECURSIVE SeqSum(_, _, _)
SeqSum(pts, i, n) == IF n = 0 THEN 0 ELSE SeqSum(pts, i, n - 1) + pts[n][i]

\* Points.centroid(): the mean of the member coordinates
centroid(pts) ==
    <<SeqSum(pts, 1, Len(pts)) \div Len(pts),
      SeqSum(pts, 2, Len(pts)) \div Len(pts),
      SeqSum(pts, 3, Len(pts)) \div Len(pts)>>

\* np.asarray(obj) for a Point, np.asarray(obj.centroid()) for Points
Position(obj) == IF obj.kind = "Point" THEN obj.pts[1] ELSE centroid(obj.pts)

\* Scene.get_mean_points on the dict d of a scene
get_mean_points(d) ==
    [k \in {x \in DOMAIN d : d[x].kind \in Supported} |-> Position(d[k])]

RECURSIVE SetSum(_, _, _)
SetSum(P, ks, i) ==
    IF ks = {} THEN 0
    ELSE LET k == CHOOSE x \in ks : TRUE IN P[k][i] + SetSum(P, ks \ {k}, i)

\* points.mean(axis=0) over the rows of the shared identities
MeanOf(P, ks) ==
    <<SetSum(P, ks, 1) \div Cardinality(ks),
      SetSum(P, ks, 2) \div Cardinality(ks),
      SetSum(P, ks, 3) \div Cardinality(ks)>>

\* v - w
Minus(v, w) == <<v[1] - w[1], v[2] - w[2], v[3] - w[3]>>

\* the rotations about z by a multiple of a quarter turn, as 3x3 matrices
Rotations == {
    << <<1, 0, 0>>, <<0, 1, 0>>, <<0, 0, 1>> >>,
    << <<0, -1, 0>>, <<1, 0, 0>>, <<0, 0, 1>> >>,
    << <<-1, 0, 0>>, <<0, -1, 0>>, <<0, 0, 1>> >>,
    << <<0, 1, 0>>, <<-1, 0, 0>>, <<0, 0, 1>> >> }

\* rotation.apply(v)
RotateAt(R, v, i) == R[i][1] * v[1] + R[i][2] * v[2] + R[i][3] * v[3]

Rotate(R, v) == <<RotateAt(R, v, 1), RotateAt(R, v, 2), RotateAt(R, v, 3)>>

Sq(x) == x * x

RECURSIVE Residual(_, _, _, _)
Residual(R, A, B, ks) ==
    IF ks = {} THEN 0
    ELSE LET k == CHOOSE x \in ks : TRUE
             r == Rotate(R, B[k])
         IN Sq(A[k][1] - r[1]) + Sq(A[k][2] - r[2]) + Sq(A[k][3] - r[3])
            + Residual(R, A, B, ks \ {k})

\* Rotation.align_vectors(a, b): the rotations R that minimise the sum of
\* |a_k - R b_k|^2, searched among Rotations; several when the optimum is
\* not unique.  The search is exact for clouds that differ by a translation
\* and a rotation of Rotations, as all of SceneInputs do.
align_vectors(A, B, ks) ==
    LET costs == {<<R, Residual(R, A, B, ks)>> : R \in Rotations}
    IN {c[1] : c \in {x \in costs : \A y \in costs : x[2] <= y[2]}}

\* transform = np.eye(4); transform[:3, :3] = R; transform[:3, 3] = t
Assemble(R, t) ==
    <<<<R[1][1], R[1][2], R[1][3], t[1]>>,
      <<R[2][1], R[2][2], R[2][3], t[2]>>,
      <<R[3][1], R[3][2], R[3][3], t[3]>>,
      <<0, 0, 0, 1>> >>

\* the mutant of SharedIds: object_ids is not looked at
SharedIdsOfAll(from_points_dict, to_points_dict, all, object_ids) ==
    (DOMAIN from_points_dict) \cap (DOMAIN to_points_dict)

\* shared_ids of best_fit_points; all stands for object_ids is None
SharedIds(from_points_dict, to_points_dict, all, object_ids) ==
    IF all THEN (DOMAIN from_points_dict) \cap (DOMAIN to_points_dict)
    ELSE object_ids \cap (DOMAIN from_points_dict) \cap (DOMAIN to_points_dict)

\* the mutant of FitTransforms: the translation is the centroid of the
\* to-points, the rotated centroid of the from-points is not subtracted
FitTransformsUncentred(P, Q, ks) ==
    LET from_centroid == MeanOf(P, ks)
        to_centroid == MeanOf(Q, ks)
        from_centered == [k \in ks |-> Minus(P[k], from_centroid)]
        to_centered == [k \in ks |-> Minus(Q[k], to_centroid)]
    IN {Assemble(R, to_centroid) : R \in align_vectors(to_centered, from_centered, ks)}

\* the transforms best_fit_points may compute from the two scenes' mean points
FitTransforms(P, Q, ks) ==
    LET from_centroid == MeanOf(P, ks)
        to_centroid == MeanOf(Q, ks)
        from_centered == [k \in ks |-> Minus(P[k], from_centroid)]
        to_centered == [k \in ks |-> Minus(Q[k], to_centroid)]
    IN {Assemble(R, Minus(to_centroid, Rotate(R, from_centroid)))
            : R \in align_vectors(to_centered, from_centered, ks)}

BestFitCalled(c, from_scene, to_scene, all, object_ids, out) ==
    [Called("best_fit_points", c, from_scene, to_scene, out)
        EXCEPT !.all = all, !.ids = object_ids]

\* the mutant of TooFew: exactly MinSharedPoints identities rejected as well
TooFewOrEqual(shared_ids) == Cardinality(shared_ids) <= MinSharedPoints

\* if len(shared_ids) < 3
TooFew(shared_ids) == Cardinality(shared_ids) < MinSharedPoints

\* the mutant of BestFitStore: the transform is returned but never added
BestFitNoStore(c, from_scene, to_scene, transform) ==
    tms' = tms

\* self._get_tm().add_transform(from_scene, to_scene, transform)
BestFitStore(c, from_scene, to_scene, transform) ==
    tms' = [tms EXCEPT ![configurations[c]] =
               add_transform(@, from_scene, to_scene, transform)]

\* the mutant of SceneLookupError: a missing scene reported as a ValueError
SceneLookupErrorValue == "ValueError"

\* Workspace.__getitem__ raises KeyError for a name that is no scene
SceneLookupError == "KeyError"

\* Configuration.best_fit_points(from_scene, to_scene, object_ids)
BestFit(c, from_scene, to_scene, all, object_ids) ==
    /\ c \in DOMAIN configurations
    /\ IF from_scene \notin DOMAIN scenes \/ to_scene \notin DOMAIN scenes
       THEN /\ ret' = BestFitCalled(c, from_scene, to_scene, all, object_ids,
                                    Raise(SceneLookupError))
            /\ UNCHANGED tms
       ELSE LET from_points_dict == get_mean_points(dicts[scenes[from_scene]])
                to_points_dict == get_mean_points(dicts[scenes[to_scene]])
                shared_ids == SharedIds(from_points_dict, to_points_dict, all, object_ids)
            IN IF TooFew(shared_ids)
               THEN /\ ret' = [BestFitCalled(c, from_scene, to_scene, all, object_ids,
                                             Raise("ValueError"))
                                     EXCEPT !.used = shared_ids]
                    /\ UNCHANGED tms
               ELSE \E transform \in FitTransforms(from_points_dict, to_points_dict,
                                                   shared_ids) :
                       /\ BestFitStore(c, from_scene, to_scene, transform)
                       /\ ret' = [BestFitCalled(c, from_scene, to_scene, all, object_ids,
                                                Ok(transform))
                                     EXCEPT !.over = <<from_scene, to_scene>>
                                                        \in DOMAIN get_tm(c).transforms,
                                            !.used = shared_ids]
    /\ UNCHANGED <<dicts, scenes, configurations, objects, created, snap, snapOf, frames>>

----------------------------------------------------------------------------
(* The transform graph: scenes, one configuration, connect and             *)
(* get_transform.  connect is called on the directed pairs GraphPairs:     *)
(* a pair and its reverse, the chain a -> b -> c with the direct a -> c,   *)
(* and a second way a -> d -> c of the same length.                        *)

MaxEdges == 4

GraphConfigs == {"test"}

GraphPairs == {<<"a", "b">>, <<"b", "a">>, <<"b", "c">>,
               <<"a", "c">>, <<"a", "d">>, <<"d", "c">>}

\* the directed pair has a transform already, or there is room for one more
EdgeRoom(c, from_scene, to_scene) ==
    /\ c \in DOMAIN configurations
    /\ Cardinality((DOMAIN get_tm(c).transforms) \cup {<<from_scene, to_scene>>}) <= MaxEdges

GraphNext ==
    \/ \E n \in SceneNames : CreateScene(n, "None", EmptyDict)
    \/ \E c \in GraphConfigs : CreateConfiguration(c)
    \/ \E c \in GraphConfigs, p \in GraphPairs, T \in Transforms :
          EdgeRoom(c, p[1], p[2]) /\ Connect(c, p[1], p[2], T)
    \/ \E c \in GraphConfigs, f \in SceneNames, t \in SceneNames : GetTransform(c, f, t)

SpecGraph == Init /\ [][GraphNext]_vars

----------------------------------------------------------------------------
(* Properties of the transform graph.                                      *)

Stored(c) == DOMAIN get_tm(c).transforms

\* what get_transform(f, t) on configuration c may return
Outcomes(c, f, t) == tm_get_transform(get_tm(c), f, t)

\* R undoes T
IsInverse(R, T) == Dot(R, T) = Eye4 /\ Dot(T, R) = Eye4

\* C1 as stated: for every stored edge A -> B with transform T,
\* get_transform(B, A) is the inverse of T.
InverseOfEveryEdge ==
    \A c \in DOMAIN configurations : \A p \in Stored(c) :
        \A out \in Outcomes(c, p[2], p[1]) :
            out.err = "none" /\ IsInverse(out.T, get_tm(c).transforms[p])

\* C1 amended: for every stored edge A -> B with transform T whose reverse
\* pair B -> A has no transform stored, get_transform(B, A) is the inverse
\* of T.
InverseOfOneWayEdge ==
    \A c \in DOMAIN configurations : \A p \in Stored(c) :
        <<p[2], p[1]>> \notin Stored(c) =>
            \A out \in Outcomes(c, p[2], p[1]) :
                out.err = "none" /\ IsInverse(out.T, get_tm(c).transforms[p])

\* get_transform(b, a) has just returned the inverse of a quarter turn stored
\* for a -> b alone
InverseWitness ==
    /\ ret.op = "get_transform" /\ ret.err = "none"
    /\ <<ret.to, ret.from>> \in Stored(ret.cfg)
    /\ <<ret.from, ret.to>> \notin Stored(ret.cfg)
    /\ get_tm(ret.cfg).transforms[<<ret.to, ret.from>>] = QuarterTurnZ(1, 2, 3)
    /\ ret.T # QuarterTurnZ(1, 2, 3)

\* get_transform(A, C) is get_transform(B, C) . get_transform(A, B)
Composes(c, A, B, C) ==
    \A ab \in Outcomes(c, A, B), bc \in Outcomes(c, B, C), ac \in Outcomes(c, A, C) :
        ac.err = "none" /\ ac.T = Dot(bc.T, ab.T)

\* C2 as stated: whenever transforms A -> B and B -> C are stored for three
\* scenes, get_transform(A, C) = get_transform(B, C) . get_transform(A, B).
ChainComposes ==
    \A c \in DOMAIN configurations : \A A \in SceneNames, B \in SceneNames, C \in SceneNames :
        (A # B /\ B # C /\ A # C /\ <<A, B>> \in Stored(c) /\ <<B, C>> \in Stored(c))
            => Composes(c, A, B, C)

\* a transform is stored between u and v, in one direction or the other
Linked(c, u, v) == <<u, v>> \in Stored(c) \/ <<v, u>> \in Stored(c)

\* A - B - C is the only shortest way from A to C
OnlyWay(c, A, B, C) ==
    /\ ~Linked(c, A, C)
    /\ \A D \in SceneNames \ {B} : ~(Linked(c, A, D) /\ Linked(c, D, C))

\* C2 amended: whenever transforms A -> B and B -> C are stored for three
\* scenes, no transform is stored between A and C in either direction, and
\* B is the only scene with a stored transform to or from both A and C,
\* get_transform(A, C) = get_transform(B, C) . get_transform(A, B).
OnlyChainComposes ==
    \A c \in DOMAIN configurations : \A A \in SceneNames, B \in SceneNames, C \in SceneNames :
        (A # B /\ B # C /\ A # C /\ <<A, B>> \in Stored(c) /\ <<B, C>> \in Stored(c)
            /\ OnlyWay(c, A, B, C))
            => Composes(c, A, B, C)

\* get_transform(a, c) has just composed two stored transforms that do not
\* commute
ChainWitness ==
    /\ ret.op = "get_transform" /\ ret.err = "none"
    /\ ret.from = "a" /\ ret.to = "c"
    /\ <<"a", "b">> \in Stored(ret.cfg) /\ <<"b", "c">> \in Stored(ret.cfg)
    /\ OnlyWay(ret.cfg, "a", "b", "c")
    /\ LET ab == get_tm(ret.cfg).transforms[<<"a", "b">>]
           bc == get_tm(ret.cfg).transforms[<<"b", "c">>]
       IN ret.T = Dot(bc, ab) /\ ret.T # Dot(ab, bc)

\* C3: connect(from, to, T) on two existing scenes succeeds, and right after
\* it get_transform(from, to) returns T, also when the pair had a transform
\* before (the last call wins).
ConnectStores ==
    ret.op = "connect" =>
        /\ (ret.from \in DOMAIN scenes /\ ret.to \in DOMAIN scenes) => ret.err = "none"
        /\ ret.err = "none" => Outcomes(ret.cfg, ret.from, ret.to) = {Ok(ret.T)}

\* connect has just replaced the transform of a pair by another one, with
\* the reverse pair stored as well
ConnectWitness ==
    /\ ret.op = "connect" /\ ret.err = "none" /\ ret.over
    /\ <<ret.to, ret.from>> \in Stored(ret.cfg)
    /\ get_tm(ret.cfg).transforms[<<ret.from, ret.to>>] = ret.T

\* C4: connect(from, to, T) with from or to not a scene of the Workspace
\* raises KeyError and leaves every TransformManager as it was.
ConnectMissingScene ==
    [][(ret'.op = "connect"
            /\ (ret'.from \notin DOMAIN scenes \/ ret'.to \notin DOMAIN scenes))
        => (ret'.err = "KeyError" /\ tms' = tms)]_vars

\* connect has just failed for a missing to_scene, from an existing scene
\* that has edges
ConnectMissingWitness ==
    /\ ret.op = "connect" /\ ret.err = "KeyError"
    /\ ret.from \in DOMAIN scenes /\ ret.to \notin DOMAIN scenes
    /\ ret.from \in get_tm(ret.cfg).nodes

\* the scenes joined to the scenes of S by stored transforms, in either
\* direction
RECURSIVE Component(_, _)
Component(c, S) ==
    LET more == S \cup {v \in SceneNames : \E u \in S : Linked(c, u, v)}
    IN IF more = S THEN S ELSE Component(c, more)

\* a path of one or more stored edges, each taken in either direction,
\* leads from f to t
PathExists(c, f, t) ==
    t \in Component(c, {v \in SceneNames : Linked(c, f, v)})

\* C5: get_transform(from, to) raises KeyError when no path of stored edges,
\* taken in either direction, joins from and to (so also when one of them
\* is in no edge), and returns a transform when there is such a path.
GetTransformNeedsPath ==
    ret.op = "get_transform" =>
        /\ ret.err \in {"none", "KeyError"}
        /\ ret.err = "KeyError" <=> ~PathExists(ret.cfg, ret.from, ret.to)

\* get_transform has just failed between two scenes that both have edges
NoPathWitness ==
    /\ ret.op = "get_transform" /\ ret.err = "KeyError"
    /\ ret.from \in get_tm(ret.cfg).nodes /\ ret.to \in get_tm(ret.cfg).nodes

----------------------------------------------------------------------------
(* Best fit: two scenes populated by the caller, one configuration.        *)

FitNames == {"a", "b"}

FitNext ==
    \/ \E n \in FitNames, d \in SceneInputs : CreateScene(n, "literal", d)
    \/ \E c \in GraphConfigs : CreateConfiguration(c)
    \/ \E c \in GraphConfigs, f \in FitNames, t \in FitNames :
          \/ BestFit(c, f, t, TRUE, {})
          \/ \E ids \in IdSubsets : BestFit(c, f, t, FALSE, ids)

SpecFit == Init /\ [][FitNext]_vars

\* the identities that both scenes hold as a Point or Points and that the
\* call does not exclude
Usable(from_scene, to_scene, all, ids) ==
    {k \in ObjectIds :
        /\ k \in DOMAIN dicts[scenes[from_scene]]
        /\ k \in DOMAIN dicts[scenes[to_scene]]
        /\ dicts[scenes[from_scene]][k].kind \in {"Point", "Points"}
        /\ dicts[scenes[to_scene]][k].kind \in {"Point", "Points"}
        /\ (all \/ k \in ids)}

\* C6: best_fit on two existing scenes raises ValueError exactly when fewer
\* than 3 shared identities remain, stores nothing then, and does not raise
\* with 3 or more.
BestFitNeedsThree ==
    [][(ret'.op = "best_fit_points"
            /\ ret'.from \in DOMAIN scenes /\ ret'.to \in DOMAIN scenes)
        => /\ ret'.err \in {"none", "ValueError"}
           /\ ret'.err = "ValueError"
                 <=> Cardinality(Usable(ret'.from, ret'.to, ret'.all, ret'.ids)) < 3
           /\ ret'.err = "ValueError" => tms' = tms]_vars

\* best_fit has just succeeded on exactly 3 shared identities, one of the
\* scenes holding a fourth entry of an unsupported kind
ExactlyThreeWitness ==
    /\ ret.op = "best_fit_points" /\ ret.err = "none" /\ ret.all
    /\ ret.from \in DOMAIN scenes /\ ret.to \in DOMAIN scenes
    /\ Cardinality(Usable(ret.from, ret.to, ret.all, ret.ids)) = 3
    /\ \E k \in DOMAIN dicts[scenes[ret.from]] : dicts[scenes[ret.from]][k].kind = "Line"

\* C7: a successful best_fit stores the transform it returns as the edge
\* from -> to: right after it get_transform(from, to) returns that transform.
BestFitStores ==
    (ret.op = "best_fit_points" /\ ret.err = "none") =>
        /\ ret.T # NoTransform
        /\ Outcomes(ret.cfg, ret.from, ret.to) = {Ok(ret.T)}

\* best_fit has just stored a transform for a pair of two different scenes
\* that had one already
BestFitWitness ==
    /\ ret.op = "best_fit_points" /\ ret.err = "none" /\ ret.over
    /\ ret.from # ret.to /\ ret.T # Eye4
    /\ get_tm(ret.cfg).transforms[<<ret.from, ret.to>>] = ret.T

\* C8: best_fit with from or to not a scene of the Workspace raises KeyError,
\* whatever the scenes hold, and stores nothing.
BestFitMissingScene ==
    [][(ret'.op = "best_fit_points"
            /\ (ret'.from \notin DOMAIN scenes \/ ret'.to \notin DOMAIN scenes))
        => (ret'.err = "KeyError" /\ tms' = tms)]_vars

\* best_fit has just failed for a missing to_scene, from a scene that holds
\* four points
BestFitMissingWitness ==
    /\ ret.op = "best_fit_points" /\ ret.err = "KeyError"
    /\ ret.from \in DOMAIN scenes /\ ret.to \notin DOMAIN scenes
    /\ Cardinality(DOMAIN dicts[scenes[ret.from]]) = 4

----------------------------------------------------------------------------
(* Snapshots: the caller takes a copy of the configuration's               *)
(* TransformManager and adds transforms to it, while connect and best_fit  *)
(* go on adding to the configuration.                                      *)

SnapInputs == {Cloud(ObjectIds, Eye4), Cloud(ObjectIds, Translate(24, 48, 72))}

SnapPairs == {<<"a", "b">>, <<"b", "c">>}

SnapNext ==
    \/ \E n \in FitNames, d \in SnapInputs : CreateScene(n, "literal", d)
    \/ \E c \in GraphConfigs : CreateConfiguration(c)
    \/ \E c \in GraphConfigs, p \in SnapPairs, T \in Transforms :
          EdgeRoom(c, p[1], p[2]) /\ Connect(c, p[1], p[2], T)
    \/ \E c \in GraphConfigs, f \in FitNames, t \in FitNames :
          f # t /\ BestFit(c, f, t, TRUE, {})
    \/ \E c \in GraphConfigs : AsTransformManager(c)
    \/ \E p \in SnapPairs, T \in Transforms : SnapAddTransform(p[1], p[2], T)

SpecSnap == Init /\ [][SnapNext]_vars

\* C9: the TransformManager returned by as_transform_manager is independent
\* of the Configuration: a transform added to the copy changes no result of
\* get_transform on any Configuration, and connect and best_fit on the
\* Configuration leave the copy as it is.
SnapshotIndependent ==
    [][/\ ret'.op = "snap_add_transform" =>
             \A c \in DOMAIN configurations : \A f \in SceneNames, t \in SceneNames :
                 tm_get_transform(tms'[configurations[c]], f, t)
                     = tm_get_transform(tms[configurations[c]], f, t)
       /\ (ret'.op \in {"connect", "best_fit_points"} /\ snap # "") =>
             (snap' = snap /\ tms'[snap] = tms[snap])]_vars

\* the caller has just replaced, on its copy, the transform of a pair that
\* the Configuration stores, and the two now differ
SnapshotWitness ==
    /\ snap # "" /\ ret.op = "snap_add_transform" /\ ret.over
    /\ <<ret.from, ret.to>> \in Stored(snapOf)
    /\ tms[snap].transforms[<<ret.from, ret.to>>]
           # get_tm(snapOf).transforms[<<ret.from, ret.to>>]

----------------------------------------------------------------------------
(* Scenes created from a mapping that the caller keeps and goes on         *)
(* changing.                                                               *)

MappingInputs == {Cloud({"p1", "p2"}, Eye4), EmptyDict}

CallerKeys == {"p1", "p3"}

SceneNext ==
    \/ \E d \in MappingInputs : NewMapping(d)
    \/ \E n \in FitNames : CreateScene(n, "objects", EmptyDict)
    \/ \E k \in CallerKeys, v \in ObjectInputs : CallerSet(k, v)
    \/ \E k \in CallerKeys : CallerDel(k)

SpecScene == Init /\ [][SceneNext]_vars

\* C10: inserting, replacing or deleting entries of the caller's mapping
\* changes no scene: not which dict a scene has, nor its identities, nor the
\* objects bound to them.
SceneKeepsCopy ==
    [][ret'.op \in {"caller_set", "caller_del"} =>
          \A n \in DOMAIN scenes :
              scenes'[n] = scenes[n] /\ dicts'[scenes'[n]] = dicts[scenes[n]]]_vars

\* the caller has just changed the mapping a scene was created from, and the
\* scene still holds the two points it was created with
SceneCopyWitness ==
    /\ ret.op \in {"caller_set", "caller_del"}
    /\ \E n \in created :
          /\ dicts[scenes[n]] = Cloud({"p1", "p2"}, Eye4)
          /\ dicts[objects] # dicts[scenes[n]]

----------------------------------------------------------------------------
(* frameforest's Workspace (src/src/frameforest/workspace.py), a container *)
(* of its own: frames of objects, reached through Frame proxies.           *)

\* Workspace.create_frame(name)
CreateFrame(name) ==
    /\ IF name \in DOMAIN frames
       THEN /\ ret' = Called("create_frame", "", name, "", Raise("ValueError"))
            /\ UNCHANGED frames
       ELSE /\ frames' = Put(frames, name, EmptyDict)
            /\ ret' = Called("create_frame", "", name, "", Ok(NoTransform))
    /\ UNCHANGED <<dicts, tms, scenes, configurations, objects, created, snap, snapOf>>

\* ws[name][object_id] = data: Workspace.__getitem__ and Frame.__setitem__
FrameSet(name, object_id, data) ==
    /\ IF name \notin DOMAIN frames
       THEN /\ ret' = Called("frame_set", "", name, "", Raise("KeyError"))
            /\ UNCHANGED frames
       ELSE /\ frames' = [frames EXCEPT ![name] = Put(@, object_id, data)]
            /\ ret' = Called("frame_set", "", name, "", Ok(NoTransform))
    /\ UNCHANGED <<dicts, tms, scenes, configurations, objects, created, snap, snapOf>>

----------------------------------------------------------------------------
(* Names: scenes, frames and configurations are created again under names  *)
(* that exist, after the scenes and frames got objects and the             *)
(* configuration got transforms.                                           *)

NameInputs == {Cloud({"p1", "p2"}, Eye4), Mixed, EmptyDict}

NamePairs == {<<"a", "b">>, <<"b", "a">>}

FrameKeys == {"p1"}

NamesNext ==
    \/ \E n \in FitNames, d \in NameInputs : CreateScene(n, "literal", d)
    \/ \E n \in FitNames : CreateFrame(n)
    \/ \E n \in FitNames, k \in FrameKeys, v \in ObjectInputs : FrameSet(n, k, v)
    \/ \E c \in GraphConfigs : CreateConfiguration(c)
    \/ \E c \in GraphConfigs, p \in NamePairs, T \in Transforms :
          EdgeRoom(c, p[1], p[2]) /\ Connect(c, p[1], p[2], T)

SpecNames == Init /\ [][NamesNext]_vars

\* C11: creating a scene, a frame or a configuration under a name that
\* exists raises ValueError and leaves every scene and its objects (every
\* frame and its objects, every configuration and its transforms) as they
\* were.
NamesUnique ==
    [][/\ (ret'.op = "create_scene" /\ ret'.from \in DOMAIN scenes) =>
             (ret'.err = "ValueError" /\ scenes' = scenes /\ dicts' = dicts)
       /\ (ret'.op = "create_frame" /\ ret'.from \in DOMAIN frames) =>
             (ret'.err = "ValueError" /\ frames' = frames)
       /\ (ret'.op = "create_configuration" /\ ret'.cfg \in DOMAIN configurations) =>
             (ret'.err = "ValueError" /\ configurations' = configurations /\ tms' = tms)]_vars

\* create_scene has just been refused for the name of a scene that holds
\* objects, given other objects, while a configuration holds transforms
DuplicateWitness ==
    /\ ret.op = "create_scene" /\ ret.err = "ValueError"
    /\ dicts[scenes[ret.from]] = Mixed
    /\ \E c \in DOMAIN configurations : DOMAIN get_tm(c).transforms # {}

----------------------------------------------------------------------------
(* Scene.add_points_from_observations and Scene.get_mean_points.           *)
(* Observations are a sequence of <<object_id, coords>>; coords is a tuple *)
(* of numbers.  skspatial makes Points of a list of coordinates only when  *)
(* the list is a non-empty rectangular array; the empty tuple stands for   *)
(* coordinates of which no row can be made.                                *)

\* the mutant of AppendCoords: a later observation goes before the earlier
PrependCoords(coords_list, coords) == <<coords>> \o coords_list

\* grouped[object_id].append(coords)
AppendCoords(coords_list, coords) == Append(coords_list, coords)

\* grouped after the first n observations: a dict in insertion order, as
\* the sequence of its keys (order) and the list of each key (lists)
RECURSIVE Grouped(_, _)
Grouped(observations, n) ==
    IF n = 0 THEN [order |-> <<>>, lists |-> [k \in {} |-> <<>>]]
    ELSE LET g == Grouped(observations, n - 1)
             object_id == observations[n][1]
             coords == observations[n][2]
         IN IF object_id \in DOMAIN g.lists
            THEN [order |-> g.order,
                  lists |-> [g.lists EXCEPT ![object_id] = AppendCoords(@, coords)]]
            ELSE [order |-> Append(g.order, object_id),
                  lists |-> Put(g.lists, object_id, AppendCoords(<<>>, coords))]

\* Points(coords_list) raises ValueError unless coords_list is a non-empty
\* rectangular array
PointsValid(coords_list) ==
    /\ Len(coords_list) > 0
    /\ Len(coords_list[1]) > 0
    /\ \A i \in 1..Len(coords_list) : Len(coords_list[i]) = Len(coords_list[1])

\* for object_id, coords_list in grouped.items(): data[object_id] =
\* Points(coords_list), from the i-th group on: the dict as the loop leaves
\* it, and the error that ended it
RECURSIVE StoreGroups(_, _, _)
StoreGroups(data, grouped, i) ==
    IF i > Len(grouped.order) THEN [data |-> data, err |-> "none"]
    ELSE LET object_id == grouped.order[i]
             coords_list == grouped.lists[object_id]
         IN IF ~PointsValid(coords_list)
            THEN [data |-> data, err |-> "ValueError"]
            ELSE StoreGroups(Put(data, object_id, Points(coords_list)), grouped, i + 1)

\* Scene.add_points_from_observations(observations) on the scene name
AddPoints(name, observations) ==
    /\ IF name \notin DOMAIN scenes
       THEN /\ ret' = [Called("add_points_from_observations", "", name, "",
                              Raise("KeyError")) EXCEPT !.obs = observations]
            /\ UNCHANGED dicts
       ELSE LET out == StoreGroups(dicts[scenes[name]],
                                   Grouped(observations, Len(observations)), 1)
            IN /\ dicts' = [dicts EXCEPT ![scenes[name]] = out.data]
               /\ ret' = [Called("add_points_from_observations", "", name, "",
                                 [err |-> out.err, T |-> NoTransform])
                             EXCEPT !.obs = observations]
    /\ UNCHANGED <<tms, scenes, configurations, objects, created, snap, snapOf, frames>>

\* Scene.get_mean_points() on the scene name
GetMeanPoints(name) ==
    /\ IF name \notin DOMAIN scenes
       THEN ret' = Called("get_mean_points", "", name, "", Raise("KeyError"))
       ELSE ret' = [Called("get_mean_points", "", name, "", Ok(NoTransform))
                       EXCEPT !.val = get_mean_points(dicts[scenes[name]])]
    /\ UNCHANGED <<dicts, tms, scenes, configurations, objects, created, snap, snapOf,
                   frames>>

\* the observations a caller passes: none; two identities interleaved; a
\* second group that cannot be made into Points; one identity seen at two
\* places, in the two orders; an identity that Mixed holds as a Line
ObsInputs ==
    {<<>>,
     << <<"p1", <<0, 0, 0>> >>, <<"p2", <<24, 0, 0>> >>, <<"p1", <<0, 0, 48>> >> >>,
     << <<"p2", <<24, 0, 0>> >>, <<"p1", <<>> >> >>,
     << <<"p1", <<48, 0, 0>> >>, <<"p1", <<0, 0, 0>> >> >>,
     << <<"p1", <<0, 0, 0>> >>, <<"p1", <<48, 0, 0>> >> >>,
     << <<"p3", <<0, 24, 0>> >> >>}

ObsNext ==
    \/ \E n \in FitNames, d \in NameInputs : CreateScene(n, "literal", d)
    \/ \E n \in FitNames, o \in ObsInputs : AddPoints(n, o)
    \/ \E n \in FitNames : GetMeanPoints(n)

SpecObs == Init /\ [][ObsNext]_vars

\* the coordinates that obs pairs with the identity k, in their order
RECURSIVE PairedWith(_, _)
PairedWith(obs, k) ==
    IF obs = <<>> THEN <<>>
    ELSE IF Head(obs)[1] = k THEN <<Head(obs)[2]>> \o PairedWith(Tail(obs), k)
    ELSE PairedWith(Tail(obs), k)

IdsOf(obs) == {obs[i][1] : i \in 1..Len(obs)}

\* C12: a call of add_points_from_observations(obs) that returns leaves,
\* for every identity of obs, one Points holding exactly the coordinates
\* that obs pairs with it, in their order, whatever the scene held for it
\* before, and no entry besides; every call, returning or not, leaves the
\* entries of the identities that are not in obs as they were.
ObservationsGrouped ==
    [][(ret'.op = "add_points_from_observations" /\ ret'.from \in DOMAIN scenes) =>
          LET before == dicts[scenes[ret'.from]]
              after == dicts'[scenes'[ret'.from]]
          IN /\ ret'.err = "none" =>
                   /\ DOMAIN after = (DOMAIN before) \cup IdsOf(ret'.obs)
                   /\ \A k \in IdsOf(ret'.obs) :
                          after[k] = [kind |-> "Points", pts |-> PairedWith(ret'.obs, k)]
             /\ \A k \in (DOMAIN before) \ IdsOf(ret'.obs) :
                    k \in DOMAIN after /\ after[k] = before[k]]_vars

\* add_points_from_observations has just put two observations of p1, with
\* one of p2 between them, into a scene that held p1 as a Points of other
\* coordinates and holds a Line
ObservationsWitness ==
    /\ ret.op = "add_points_from_observations" /\ ret.err = "none"
    /\ Len(ret.obs) = 3
    /\ LET d == dicts[scenes[ret.from]]
       IN /\ d["p1"] = Points(<< <<0, 0, 0>>, <<0, 0, 48>> >>)
          /\ d["p2"] = Points(<< <<24, 0, 0>> >>)
          /\ "p3" \in DOMAIN d /\ d["p3"] = Line

\* the sum of the i-th coordinates of pts
RECURSIVE CoordSum(_, _)
CoordSum(pts, i) == IF pts = <<>> THEN 0 ELSE Head(pts)[i] + CoordSum(Tail(pts), i)

\* pos is the representative position of obj: its coordinates for a Point,
\* the mean of its members for a Points
Represents(pos, obj) ==
    /\ obj.kind = "Point" => pos = obj.pts[1]
    /\ obj.kind = "Points" =>
          \A i \in 1..3 : Len(obj.pts) * pos[i] = CoordSum(obj.pts, i)

\* C13: get_mean_points() on an existing scene does not raise, whatever the
\* kinds of the entries; its result has exactly the identities held as a
\* Point or a Points, each with its representative position, and no entry
\* for an object of another kind.
MeanPointsOfSupported ==
    (ret.op = "get_mean_points" /\ ret.from \in DOMAIN scenes) =>
        LET d == dicts[scenes[ret.from]]
        IN /\ ret.err = "none"
           /\ DOMAIN ret.val = {k \in DOMAIN d : d[k].kind \in {"Point", "Points"}}
           /\ \A k \in DOMAIN ret.val : Represents(ret.val[k], d[k])

\* get_mean_points has just returned the mean of a Points of two members
\* and a Point, from a scene that also holds a Line
MeanPointsWitness ==
    /\ ret.op = "get_mean_points" /\ ret.err = "none"
    /\ LET d == dicts[scenes[ret.from]]
       IN /\ \E k \in DOMAIN d : d[k].kind = "Line"
          /\ \E k \in DOMAIN d : d[k].kind = "Point"
          /\ "p1" \in DOMAIN d /\ d["p1"] = Points(<< <<48, 0, 0>>, <<0, 0, 0>> >>)
          /\ ret.val["p1"] = <<24, 0, 0>>

\* C20 as stated: a call of add_points_from_observations either stores the
\* Points of every identity of the observations or raises, and a call that
\* raises (for a missing scene, or for a group of coordinates of which no
\* Points can be made) leaves every scene as it was before the call.
ObservationsAllOrNothing ==
    [][ret'.op = "add_points_from_observations" =>
          /\ ret'.err = "none" =>
                \A k \in IdsOf(ret'.obs) :
                    /\ k \in DOMAIN dicts'[scenes'[ret'.from]]
                    /\ dicts'[scenes'[ret'.from]][k].kind = "Points"
          /\ ret'.err # "none" => (dicts' = dicts /\ scenes' = scenes)]_vars

\* add_points_from_observations has just raised for its second group, and
\* the scene holds the Points of its first group
PartialWriteWitness ==
    /\ ret.op = "add_points_from_observations" /\ ret.err = "ValueError"
    /\ ret.obs = << <<"p2", <<24, 0, 0>> >>, <<"p1", <<>> >> >>
    /\ dicts[scenes[ret.from]] = ("p2" :> Points(<< <<24, 0, 0>> >>))

----------------------------------------------------------------------------
(* View: a Configuration and a reference scene.  config.view_from(ref)     *)
(* raises KeyError for a name that is no scene; the View keeps nothing     *)
(* else, so each call is modelled with the reference it was opened on.     *)

\* the value get_object gives for an object of an unsupported kind
NotImplemented == [kind |-> "NotImplemented", pts |-> <<>>]

Val(v) == [err |-> "none", val |-> v]

Fail(e) == [err |-> e, val |-> <<>>]

\* the first n coordinates of pts mapped through T, in their order
RECURSIVE ApplyAll(_, _, _)
ApplyAll(T, pts, n) ==
    IF n = 0 THEN <<>> ELSE Append(ApplyAll(T, pts, n - 1), Apply(T, pts[n]))

\* the mutant of Unsupported: an unsupported kind is an error
UnsupportedRaises == Fail("TypeError")

\* an object of an unsupported kind yields the sentinel, not an error
Unsupported == Val(NotImplemented)

\* obj of a scene, seen through the transform T from that scene to the
\* reference
Resolved(T, obj) ==
    IF obj.kind = "Point" THEN Val(Point(Apply(T, obj.pts[1])))
    ELSE IF obj.kind = "Points" THEN Val(Points(ApplyAll(T, obj.pts, Len(obj.pts))))
    ELSE Unsupported

\* View.get_object(scene, object_id) on the View of c at reference: the
\* outcomes it may have
view_get_object(c, reference, scene, object_id) ==
    IF scene \notin DOMAIN scenes THEN {Fail("KeyError")}
    ELSE {IF out.err # "none" THEN Fail("KeyError")
          ELSE IF object_id \notin DOMAIN dicts[scenes[scene]] THEN Fail("KeyError")
          ELSE Resolved(out.T, dicts[scenes[scene]][object_id])
             : out \in tm_get_transform(get_tm(c), scene, reference)}

\* glob match of an identity; the patterns asked are "*" and patterns
\* without a wildcard, which match themselves only
Matches(pattern, object_id) == pattern = "*" \/ pattern = object_id

\* the orders in which the scenes of S may be scanned
Orders(S) ==
    {order \in [1..Cardinality(S) -> S] :
        \A i \in 1..Cardinality(S), j \in 1..Cardinality(S) :
            i # j => order[i] # order[j]}

\* one outcome of get_transform(scene, reference) for each scene of S
RECURSIVE TransformChoices(_, _, _)
TransformChoices(c, reference, S) ==
    IF S = {} THEN {<<>>}
    ELSE LET scene == CHOOSE x \in S : TRUE
         IN {(scene :> out) @@ Ts :
                out \in tm_get_transform(get_tm(c), scene, reference),
                Ts \in TransformChoices(c, reference, S \ {scene})}

\* the mutant of Merge: the later scene replaces what was gathered
MergeLast(members, pts) == pts

\* the consolidation rule: the members gathered so far, then pts
Merge(members, pts) == members \o pts

\* the coordinates pts of a match go to what was gathered for object_id
Gathered(found, object_id, pts) ==
    IF object_id \in DOMAIN found
    THEN (object_id :> Merge(found[object_id], pts)) @@ found
    ELSE (object_id :> pts) @@ found

\* the matches ks of one scene, whose dict is d and whose transform to the
\* reference is T, resolved as in get_object and added to acc; acc is the
\* coordinates gathered for each identity (val) and the error that ended
\* the query (err)
RECURSIVE ScanScene(_, _, _, _)
ScanScene(acc, T, d, ks) ==
    IF ks = {} \/ acc.err # "none" THEN acc
    ELSE LET object_id == CHOOSE x \in ks : TRUE
             rest == ScanScene(acc, T, d, ks \ {object_id})
             o == Resolved(T, d[object_id])
         IN IF rest.err # "none" THEN rest
            ELSE IF o.err # "none" THEN Fail(o.err)
            ELSE IF o.val = NotImplemented THEN rest
            ELSE Val(Gathered(rest.val, object_id, o.val.pts))

\* the mutant of Skipped: a scene without a path to the reference ends the
\* query
NotSkipped(acc) == Fail("KeyError")

\* a scene with no path to the reference is skipped, it is no error
Skipped(acc) == acc

\* the first n scenes of order scanned with the transforms Ts
RECURSIVE Scan(_, _, _, _)
Scan(order, Ts, pattern, n) ==
    IF n = 0 THEN Val(<<>>)
    ELSE LET acc == Scan(order, Ts, pattern, n - 1)
             d == dicts[scenes[order[n]]]
         IN IF acc.err # "none" THEN acc
            ELSE IF Ts[order[n]].err # "none" THEN Skipped(acc)
            ELSE ScanScene(acc, Ts[order[n]].T, d,
                           {k \in DOMAIN d : Matches(pattern, k)})

\* the outcome of a query that scans the scenes in order with transforms Ts:
\* one Points for each identity that something was gathered for
QueryOutcome(order, Ts, pattern) ==
    LET acc == Scan(order, Ts, pattern, Len(order))
    IN IF acc.err # "none" THEN acc
       ELSE Val([k \in DOMAIN acc.val |-> Points(acc.val[k])])

\* View.query(pattern, from_scenes) on the View of c at reference; all
\* stands for from_scenes not given
view_query(c, reference, pattern, all, from_scenes) ==
    LET scanned == IF all THEN DOMAIN scenes ELSE from_scenes
    IN IF ~(scanned \subseteq DOMAIN scenes) THEN {Fail("KeyError")}
       ELSE {QueryOutcome(order, Ts, pattern) :
                order \in Orders(scanned), Ts \in TransformChoices(c, reference, scanned)}

\* config.view_from(reference).get_object(scene, object_id)
ViewGetObject(c, reference, scene, object_id) ==
    /\ c \in DOMAIN configurations
    /\ \E o \in IF reference \in DOMAIN scenes
                 THEN view_get_object(c, reference, scene, object_id)
                 ELSE {Fail("KeyError")} :
          ret' = [Called("get_object", c, scene, reference,
                         [err |-> o.err, T |-> NoTransform])
                     EXCEPT !.key = object_id, !.val = o.val]
    /\ UNCHANGED <<dicts, tms, scenes, configurations, objects, created, snap, snapOf,
                   frames>>

\* config.view_from(reference).query(pattern, from_scenes)
ViewQuery(c, reference, pattern, all, from_scenes) ==
    /\ c \in DOMAIN configurations
    /\ \E o \in IF reference \in DOMAIN scenes
                 THEN view_query(c, reference, pattern, all, from_scenes)
                 ELSE {Fail("KeyError")} :
          ret' = [Called("query", c, "", reference, [err |-> o.err, T |-> NoTransform])
                     EXCEPT !.key = pattern, !.all = all, !.ids = from_scenes,
                            !.val = o.val]
    /\ UNCHANGED <<dicts, tms, scenes, configurations, objects, created, snap, snapOf,
                   frames>>

----------------------------------------------------------------------------
(* Views over three scenes that hold the same identities, as Points and   *)
(* as objects of other kinds, joined by zero to three transforms.         *)

ViewNames == {"a", "b", "c"}

ViewInputs == {Cloud({"p1", "p2"}, Eye4), Mixed}

\* the transforms connect is called with: a chain a -> c -> b and the
\* direct a -> b
ViewEdges == {<<"a", "b", Translate(10, 0, 0)>>, <<"c", "b", QuarterTurnZ(1, 2, 3)>>,
              <<"a", "c", Translate(10, 0, 0)>>}

ViewKeys == {"p1", "p3"}

Patterns == {"*", "p1"}

FromInputs == {{"a", "c"}}

ViewNext ==
    \/ \E n \in ViewNames, d \in ViewInputs : CreateScene(n, "literal", d)
    \/ \E c \in GraphConfigs : CreateConfiguration(c)
    \/ \E c \in GraphConfigs, e \in ViewEdges :
          EdgeRoom(c, e[1], e[2]) /\ Connect(c, e[1], e[2], e[3])
    \/ \E c \in GraphConfigs, r \in ViewNames, n \in ViewNames, k \in ViewKeys :
          ViewGetObject(c, r, n, k)
    \/ \E c \in GraphConfigs, r \in ViewNames, pat \in Patterns :
          \/ ViewQuery(c, r, pat, TRUE, {})
          \/ \E ss \in FromInputs : ViewQuery(c, r, pat, FALSE, ss)

SpecView == Init /\ [][ViewNext]_vars

----------------------------------------------------------------------------
(* Properties of a View.  A scene is connected to the reference when a     *)
(* path of stored transforms, each taken in either direction, joins them:  *)
(* the reference itself is, as soon as it has a transform.                 *)

\* the dict of the scene n
ObjectsOf(n) == dicts[scenes[n]]

\* the scenes the last query had to scan
Scanned == IF ret.all THEN DOMAIN scenes ELSE ret.ids

\* the scenes among S that are connected to the reference ref in c and hold
\* the identity k
Holders(c, ref, S, k) ==
    {n \in S \cap DOMAIN scenes : PathExists(c, n, ref) /\ k \in DOMAIN ObjectsOf(n)}

\* the point count of an object: 1 for a Point, the number of members for a
\* Points, none for another kind
PointCount(obj) ==
    IF obj.kind = "Point" THEN 1 ELSE IF obj.kind = "Points" THEN Len(obj.pts) ELSE 0

\* the sum of the point counts of the identity k over the scenes of S
RECURSIVE CountOver(_, _)
CountOver(S, k) ==
    IF S = {} THEN 0
    ELSE LET n == CHOOSE x \in S : TRUE
         IN PointCount(ObjectsOf(n)[k]) + CountOver(S \ {n}, k)

\* C14: query("*") on a View returns, for each identity, one Points whose
\* number of coordinates is the sum of the identity's point counts (1 for a
\* Point, the number of members for a Points) over every scene connected
\* to the reference that holds the identity, and no entry for an identity
\* whose sum is 0.
ConsolidationComplete ==
    (ret.op = "query" /\ ret.err = "none" /\ ret.all /\ ret.key = "*") =>
        \A k \in ObjectIds :
            LET count == CountOver(Holders(ret.cfg, ret.to, DOMAIN scenes, k), k)
            IN IF count = 0 THEN k \notin DOMAIN ret.val
               ELSE /\ k \in DOMAIN ret.val
                    /\ ret.val[k].kind = "Points"
                    /\ Len(ret.val[k].pts) = count

\* query("*") has just returned, for p1, the two members of a Points of one
\* scene and the Point of each of two other scenes
ConsolidationWitness ==
    /\ ret.op = "query" /\ ret.err = "none" /\ ret.all /\ ret.key = "*"
    /\ "p1" \in DOMAIN ret.val /\ Len(ret.val["p1"].pts) = 4
    /\ \E n \in DOMAIN scenes : ObjectsOf(n) = Mixed

\* C15: in a scene connected to the reference, get_object on an identity
\* held as an object of an unsupported kind returns the sentinel
\* NotImplemented and raises nothing; a query over existing scenes raises
\* nothing and returns exactly the matching identities that a connected
\* scene holds as a Point or a Points, so none that is only held as an
\* object of an unsupported kind.
UnsupportedSoftFail ==
    /\ (/\ ret.op = "get_object"
        /\ ret.to \in DOMAIN scenes /\ ret.from \in DOMAIN scenes
        /\ PathExists(ret.cfg, ret.from, ret.to)
        /\ ret.key \in DOMAIN ObjectsOf(ret.from)
        /\ ObjectsOf(ret.from)[ret.key].kind \notin {"Point", "Points"})
       => (ret.err = "none" /\ ret.val = [kind |-> "NotImplemented", pts |-> <<>>])
    /\ (ret.op = "query" /\ ret.to \in DOMAIN scenes /\ Scanned \subseteq DOMAIN scenes)
       => /\ ret.err = "none"
          /\ DOMAIN ret.val =
                {k \in ObjectIds :
                    /\ ret.key \in {"*", k}
                    /\ \E n \in Holders(ret.cfg, ret.to, Scanned, k) :
                           ObjectsOf(n)[k].kind \in {"Point", "Points"}}

\* get_object has just returned the sentinel for the Line of a scene that
\* also holds Points, seen from another scene
UnsupportedWitness ==
    /\ ret.op = "get_object" /\ ret.err = "none"
    /\ ret.val = [kind |-> "NotImplemented", pts |-> <<>>]
    /\ ret.from # ret.to
    /\ ObjectsOf(ret.from) = Mixed

\* the coordinate p is one of the identity k of a scene of S that is
\* connected to ref, mapped by a transform from that scene to ref
FromConnected(c, ref, S, k, p) ==
    \E n \in Holders(c, ref, S, k) :
        \E out \in tm_get_transform(get_tm(c), n, ref) :
            \E j \in 1..Len(ObjectsOf(n)[k].pts) : p = Apply(out.T, ObjectsOf(n)[k].pts[j])

\* C16: a query over existing scenes does not raise when one of them has no
\* path to the reference; every coordinate of its result is one of a
\* connected scene, mapped to the reference, there are as many as the
\* connected scenes hold, and each matching Point or Points of a connected
\* scene has its entry.
QuerySkipsUnreachable ==
    (ret.op = "query" /\ ret.to \in DOMAIN scenes /\ Scanned \subseteq DOMAIN scenes) =>
        /\ ret.err = "none"
        /\ \A k \in DOMAIN ret.val :
              /\ \A i \in 1..Len(ret.val[k].pts) :
                    FromConnected(ret.cfg, ret.to, Scanned, k, ret.val[k].pts[i])
              /\ Len(ret.val[k].pts)
                    = CountOver(Holders(ret.cfg, ret.to, Scanned, k), k)
        /\ \A k \in ObjectIds :
              (ret.key \in {"*", k}
                  /\ CountOver(Holders(ret.cfg, ret.to, Scanned, k), k) > 0)
                  => k \in DOMAIN ret.val

\* a query has just returned the points of a connected scene while a
\* scanned scene that holds points has no path to the reference
UnreachableWitness ==
    /\ ret.op = "query" /\ ret.err = "none"
    /\ DOMAIN ret.val # {}
    /\ \E n \in Scanned :
          /\ ~PathExists(ret.cfg, n, ret.to)
          /\ \E k \in DOMAIN ObjectsOf(n) : ObjectsOf(n)[k].kind = "Point"

----------------------------------------------------------------------------
(* Best fit of clouds that differ by a translation, by a rotation, or      *)
(* whose points are on one line.                                           *)

\* three markers on one line
Collinear ==
    ("p1" :> Point(<<0, 0, 0>>)) @@ ("p2" :> Point(<<0, 0, 24>>)) @@
    ("p3" :> Point(<<0, 0, 48>>))

\* the Points of d seen from a frame displaced by T
Moved(d, T) == [k \in DOMAIN d |-> Point(Apply(T, d[k].pts[1]))]

TranslationInputs ==
    {Cloud(ObjectIds, Eye4), Cloud(ObjectIds, Translate(24, 48, 72)),
     Cloud({"p1", "p2", "p3"}, Translate(0, -24, 0)),
     Cloud({"p1", "p2", "p3"}, QuarterTurnZ(24, 0, 0)),
     Collinear, Moved(Collinear, Translate(24, 48, 72))}

TranslationPairs == {<<"a", "b">>}

TranslationNext ==
    \/ \E n \in FitNames, d \in TranslationInputs : CreateScene(n, "literal", d)
    \/ \E c \in GraphConfigs : CreateConfiguration(c)
    \/ \E c \in GraphConfigs, p \in TranslationPairs :
          \/ BestFit(c, p[1], p[2], TRUE, {})
          \/ \E ids \in IdSubsets : BestFit(c, p[1], p[2], FALSE, ids)

SpecTranslation == Init /\ [][TranslationNext]_vars

\* the position of the identity k in the scene n
PositionIn(n, k) == get_mean_points(ObjectsOf(n))[k]

\* u x v, the cross product
Cross(u, v) ==
    <<u[2] * v[3] - u[3] * v[2], u[3] * v[1] - u[1] * v[3], u[1] * v[2] - u[2] * v[1]>>

\* three of the identities ks are at positions of the scene n that are not
\* on one line
NonCollinear(n, ks) ==
    \E i \in ks, j \in ks, k \in ks :
        Cross(Minus(PositionIn(n, j), PositionIn(n, i)),
              Minus(PositionIn(n, k), PositionIn(n, i))) # <<0, 0, 0>>

\* every identity of ks is, in the scene to, where it is in the scene from
\* plus d
TranslatedBy(from, to, ks, d) ==
    \A k \in ks : Minus(PositionIn(to, k), PositionIn(from, k)) = d

\* C17: when 3 or more shared identities, not all on one line, are in the
\* to scene where they are in the from scene plus one vector d, best_fit
\* returns the transform with the identity rotation and the translation d.
BestFitOfTranslation ==
    (ret.op = "best_fit_points" /\ ret.from \in DOMAIN scenes /\ ret.to \in DOMAIN scenes) =>
        LET ks == Usable(ret.from, ret.to, ret.all, ret.ids)
        IN \A k0 \in ks :
              LET d == Minus(PositionIn(ret.to, k0), PositionIn(ret.from, k0))
              IN (/\ Cardinality(ks) >= 3
                  /\ NonCollinear(ret.from, ks)
                  /\ TranslatedBy(ret.from, ret.to, ks, d))
                 => (ret.err = "none" /\ ret.T = Translate(d[1], d[2], d[3]))

\* best_fit has just returned the translation by (24, 48, 72) between two
\* clouds of four points
TranslationWitness ==
    /\ ret.op = "best_fit_points" /\ ret.err = "none" /\ ret.all
    /\ ret.T = Translate(24, 48, 72)
    /\ Cardinality(DOMAIN ObjectsOf(ret.from)) = 4

----------------------------------------------------------------------------
(* The identities a best fit is computed from (specification SpecFit).     *)

\* the transforms that fit the positions of the identities ks of the scene
\* from to their positions in the scene to
FitsOf(from, to, ks) ==
    FitTransforms([k \in ks |-> PositionIn(from, k)], [k \in ks |-> PositionIn(to, k)], ks)

\* C18: the identities best_fit computes with, and whose number it holds
\* against the minimum of 3, are exactly those that both scenes hold as a
\* Point or a Points and, when object_ids is given, that are in object_ids:
\* not one of an unsupported kind in either scene, not one that only one
\* scene holds, not one outside object_ids, and none when object_ids is
\* empty; the transform returned is a fit of the positions of these
\* identities alone.
BestFitUsesShared ==
    (ret.op = "best_fit_points" /\ ret.from \in DOMAIN scenes /\ ret.to \in DOMAIN scenes) =>
        LET ks == Usable(ret.from, ret.to, ret.all, ret.ids)
        IN /\ ret.used = ks
           /\ ret.err = "none" <=> Cardinality(ks) >= 3
           /\ ret.err = "none" => ret.T \in FitsOf(ret.from, ret.to, ks)
           /\ (~ret.all /\ ret.ids = {}) => (ret.used = {} /\ ret.err = "ValueError")

\* best_fit has just succeeded on the three identities of object_ids, a
\* fourth one being in both scenes as a Point
SubsetWitness ==
    /\ ret.op = "best_fit_points" /\ ret.err = "none" /\ ~ret.all
    /\ ret.used = {"p1", "p2", "p3"}
    /\ "p4" \in DOMAIN ObjectsOf(ret.from) /\ "p4" \in DOMAIN ObjectsOf(ret.to)
    /\ ObjectsOf(ret.from)["p4"].kind = "Point" /\ ObjectsOf(ret.to)["p4"].kind = "Point"

----------------------------------------------------------------------------
(* Scene.__setitem__ and Scene.__delitem__, through ws[name].              *)

\* ws[name][object_id] = data
SceneSet(name, object_id, data) ==
    /\ IF name \notin DOMAIN scenes
       THEN /\ ret' = [Called("scene_set", "", name, "", Raise("KeyError"))
                          EXCEPT !.key = object_id]
            /\ UNCHANGED dicts
       ELSE /\ dicts' = [dicts EXCEPT ![scenes[name]] = Put(@, object_id, data)]
            /\ ret' = [Called("scene_set", "", name, "", Ok(NoTransform))
                          EXCEPT !.key = object_id]
    /\ UNCHANGED <<tms, scenes, configurations, objects, created, snap, snapOf, frames>>

\* del ws[name][object_id]
SceneDel(name, object_id) ==
    /\ IF name \notin DOMAIN scenes \/ object_id \notin DOMAIN dicts[scenes[name]]
       THEN /\ ret' = [Called("scene_del", "", name, "", Raise("KeyError"))
                          EXCEPT !.key = object_id]
            /\ UNCHANGED dicts
       ELSE /\ dicts' = [dicts EXCEPT ![scenes[name]] =
                            [x \in (DOMAIN @) \ {object_id} |-> @[x]]]
            /\ ret' = [Called("scene_del", "", name, "", Ok(NoTransform))
                          EXCEPT !.key = object_id]
    /\ UNCHANGED <<tms, scenes, configurations, objects, created, snap, snapOf, frames>>

----------------------------------------------------------------------------
(* The life of a configuration's graph: every operation of the Workspace,  *)
(* of its scenes and of the configuration, and the caller's changes to a   *)
(* snapshot.                                                               *)

\* connect is called on a pair of scenes and on a pair whose second scene
\* is never created; best_fit on the reverse of the first pair
EdgePairs == {<<"a", "b">>, <<"b", "c">>}

EdgeFits == {<<"b", "a">>}

\* the scene a caller changes, the identity it rebinds or deletes, and what
\* it binds it to
EdgeScenes == {"a"}

EdgeKeys == {"p4"}

EdgeObjects == {Line}

\* the pair a caller sets on its snapshot
EdgeSnapPairs == {<<"a", "b">>}

EdgesNext ==
    \/ \E n \in FitNames, d \in SnapInputs : CreateScene(n, "literal", d)
    \/ \E n \in EdgeScenes, k \in EdgeKeys, v \in EdgeObjects : SceneSet(n, k, v)
    \/ \E n \in EdgeScenes, k \in EdgeKeys : SceneDel(n, k)
    \/ \E c \in GraphConfigs : CreateConfiguration(c)
    \/ \E c \in GraphConfigs, p \in EdgePairs, T \in Transforms :
          EdgeRoom(c, p[1], p[2]) /\ Connect(c, p[1], p[2], T)
    \/ \E c \in GraphConfigs, p \in EdgeFits : BestFit(c, p[1], p[2], TRUE, {})
    \/ \E c \in GraphConfigs, f \in FitNames, t \in FitNames : GetTransform(c, f, t)
    \/ \E c \in GraphConfigs : AsTransformManager(c)
    \/ \E p \in EdgeSnapPairs, T \in Transforms : SnapAddTransform(p[1], p[2], T)

SpecEdges == Init /\ [][EdgesNext]_vars

\* get_transform(f, t) on the TransformManager tm returns a transform
Succeeds(tm, f, t) == \A out \in tm_get_transform(tm, f, t) : out.err = "none"

\* C19: a configuration is created with no transform, and no step of the
\* Workspace, of a scene, of connect, best_fit, get_transform or a snapshot
\* takes a configuration or the transform of a directed pair away: the
\* pairs stored before the step are stored after it, and every
\* get_transform that succeeded before the step succeeds after it.
EdgesKept ==
    [][/\ (ret'.op = "create_configuration" /\ ret'.err = "none") =>
             tms'[configurations'[ret'.cfg]] = [nodes |-> {}, transforms |-> <<>>]
       /\ \A c \in DOMAIN configurations :
             /\ c \in DOMAIN configurations'
             /\ DOMAIN tms[configurations[c]].transforms
                    \subseteq DOMAIN tms'[configurations'[c]].transforms
             /\ \A f \in SceneNames, t \in SceneNames :
                    Succeeds(tms[configurations[c]], f, t)
                        => Succeeds(tms'[configurations'[c]], f, t)]_vars

\* create_configuration has just been refused for a configuration that
\* holds a transform stored by connect and one stored by best_fit, of which
\* the caller holds a snapshot that it changed
EdgesWitness ==
    /\ ret.op = "create_configuration" /\ ret.err = "ValueError"
    /\ Stored(ret.cfg) = {<<"a", "b">>, <<"b", "a">>}
    /\ get_tm(ret.cfg).transforms[<<"a", "b">>] = QuarterTurnZ(1, 2, 3)
    /\ get_tm(ret.cfg).transforms[<<"b", "a">>] = Translate(-24, -48, -72)
    /\ snap # "" /\ snapOf = ret.cfg
    /\ tms[snap].transforms # get_tm(ret.cfg).transforms

----------------------------------------------------------------------------
(* Two configurations over the same scenes: connect, best_fit,             *)
(* get_transform and snapshots on the one and on the other.                *)

IsoConfigs == {"test", "other"}

\* connect is called on a pair of scenes, in the order in which they are
\* created or not, and on a pair whose second scene is never created
IsoPairs == {<<"a", "b">>, <<"b", "c">>}

IsoTransforms == {QuarterTurnZ(1, 2, 3)}

IsolationNext ==
    \/ \E n \in FitNames, d \in SnapInputs : CreateScene(n, "literal", d)
    \/ \E c \in IsoConfigs : CreateConfiguration(c)
    \/ \E c \in IsoConfigs, p \in IsoPairs, T \in IsoTransforms :
          EdgeRoom(c, p[1], p[2]) /\ Connect(c, p[1], p[2], T)
    \/ \E c \in IsoConfigs, p \in EdgeFits :
          \/ BestFit(c, p[1], p[2], TRUE, {})
          \/ BestFit(c, p[1], p[2], FALSE, {})
    \/ \E c \in IsoConfigs, f \in FitNames, t \in FitNames : GetTransform(c, f, t)
    \/ \E c \in IsoConfigs : AsTransformManager(c)

SpecIsolation == Init /\ [][IsolationNext]_vars

\* C21: a connect or a best_fit on one configuration, whether it returns or
\* raises, leaves every other configuration with the TransformManager, the
\* nodes and the transforms it had; connect, best_fit, get_transform and
\* as_transform_manager leave every scene with the dict and the objects it
\* had.
GraphOperationsIsolated ==
    [][/\ ret'.op \in {"connect", "best_fit_points"} =>
             \A c \in (DOMAIN configurations) \ {ret'.cfg} :
                 /\ c \in DOMAIN configurations'
                 /\ tms'[configurations'[c]] = tms[configurations[c]]
       /\ ret'.op \in {"connect", "best_fit_points", "get_transform",
                        "as_transform_manager"} =>
             /\ DOMAIN scenes' = DOMAIN scenes
             /\ \A n \in DOMAIN scenes : dicts'[scenes'[n]] = dicts[scenes[n]]]_vars

\* best_fit has just stored a transform in one configuration while the
\* other holds none for that pair but one for another pair, and both scenes
\* hold their four points
IsolationWitness ==
    /\ ret.op = "best_fit_points" /\ ret.err = "none"
    /\ \E c \in (DOMAIN configurations) \ {ret.cfg} :
          /\ <<ret.from, ret.to>> \notin Stored(c)
          /\ Stored(c) # {}
    /\ \A n \in FitNames :
          n \in DOMAIN scenes /\ Cardinality(DOMAIN ObjectsOf(n)) = 4

\* C22: in every state, every node of the graph of every configuration, and
\* both ends of every directed pair that has a transform, is the name of a
\* scene of the Workspace.
NodesAreScenes ==
    \A c \in DOMAIN configurations :
        /\ get_tm(c).nodes \subseteq DOMAIN scenes
        /\ \A p \in Stored(c) : p[1] \in DOMAIN scenes /\ p[2] \in DOMAIN scenes

\* connect has just been refused for a scene that does not exist, on a
\* configuration whose graph has the two scenes of the Workspace as nodes,
\* joined by connect in one direction and by best_fit in the other
NodesWitness ==
    /\ ret.op = "connect" /\ ret.err = "KeyError"
    /\ ret.to \notin DOMAIN scenes
    /\ get_tm(ret.cfg).nodes = {"a", "b"}
    /\ Stored(ret.cfg) = {<<"a", "b">>, <<"b", "a">>}

====
